---- MODULE Spec2Model ----
(***************************************************************************)
(* Model of src/bisection_method.py: the bisection root finder for         *)
(* f(x) = x^3 - 4x - 9.                                                    *)
(*                                                                         *)
(* Numbers.  The program computes with Python floats.  Every value the     *)
(* model handles is a dyadic rational  m / 2^e  with a short mantissa, on  *)
(* which the float operations  (a + b) / 2,  x**3 - 4*x - 9  and the       *)
(* comparisons are exact, so the model computes with exact dyadic          *)
(* rationals.  TLC integers are 32 bits wide, so a mantissa is kept as a   *)
(* sequence of limbs (little endian, base 2^15).  The relative error is    *)
(* the one non-dyadic quantity: it is kept as an exact fraction.           *)
(***************************************************************************)
EXTENDS Integers, Sequences, FiniteSets, TLC

(***************************************************************************)
(* Natural numbers of unbounded size: sequences of limbs, least            *)
(* significant first, no leading zero limb; <<>> is 0.                     *)
(***************************************************************************)
LimbBits == 15

Base == 2^LimbBits

Limb(x, i) == IF i <= Len(x) THEN x[i] ELSE 0

RECURSIVE MagStrip(_)
MagStrip(x) ==
    IF x = <<>> THEN <<>>
    ELSE IF x[Len(x)] = 0 THEN MagStrip(SubSeq(x, 1, Len(x) - 1))
    ELSE x

RECURSIVE MagOfNat(_)
MagOfNat(n) ==
    IF n = 0 THEN <<>> ELSE <<n % Base>> \o MagOfNat(n \div Base)

RECURSIVE MagAddC(_, _, _, _)
MagAddC(x, y, i, carry) ==
    IF i > Len(x) /\ i > Len(y)
    THEN (IF carry = 0 THEN <<>> ELSE <<carry>>)
    ELSE LET s == Limb(x, i) + Limb(y, i) + carry
         IN  <<s % Base>> \o MagAddC(x, y, i + 1, s \div Base)

MagAdd(x, y) == MagAddC(x, y, 1, 0)

\* x - y for x >= y, limb by limb with a borrow
RECURSIVE MagSubC(_, _, _, _)
MagSubC(x, y, i, borrow) ==
    IF i > Len(x) THEN <<>>
    ELSE LET s == Limb(x, i) - Limb(y, i) - borrow
         IN  <<s % Base>> \o MagSubC(x, y, i + 1, IF s < 0 THEN 1 ELSE 0)

MagSub(x, y) == MagStrip(MagSubC(x, y, 1, 0))

\* -1, 0, 1 as x < y, x = y, x > y, comparing from limb i downwards
RECURSIVE MagCmpFrom(_, _, _)
MagCmpFrom(x, y, i) ==
    IF i = 0 THEN 0
    ELSE IF x[i] < y[i] THEN -1
    ELSE IF x[i] > y[i] THEN 1
    ELSE MagCmpFrom(x, y, i - 1)

MagCmp(x, y) ==
    IF Len(x) < Len(y) THEN -1
    ELSE IF Len(x) > Len(y) THEN 1
    ELSE MagCmpFrom(x, y, Len(x))

\* x * d for one limb d
RECURSIVE MagMulLimbC(_, _, _, _)
MagMulLimbC(x, d, i, carry) ==
    IF i > Len(x)
    THEN (IF carry = 0 THEN <<>> ELSE <<carry>>)
    ELSE LET s == x[i] * d + carry
         IN  <<s % Base>> \o MagMulLimbC(x, d, i + 1, s \div Base)

MagMulLimb(x, d) == IF d = 0 THEN <<>> ELSE MagMulLimbC(x, d, 1, 0)

\* schoolbook product: x * y = x * y[i] + Base * (x * y[i+1..])
RECURSIVE MagMulFrom(_, _, _)
MagMulFrom(x, y, i) ==
    IF i > Len(y) THEN <<>>
    ELSE LET rest == MagMulFrom(x, y, i + 1)
         IN  MagAdd(MagMulLimb(x, y[i]),
                    IF rest = <<>> THEN <<>> ELSE <<0>> \o rest)

MagMul(x, y) == IF x = <<>> \/ y = <<>> THEN <<>> ELSE MagMulFrom(x, y, 1)

\* x * 2^k: whole limbs of zeros, then the bits left over
MagShl(x, k) ==
    IF x = <<>> THEN <<>>
    ELSE [i \in 1..(k \div LimbBits) |-> 0] \o MagMulLimb(x, 2^(k % LimbBits))

\* x \div 2^k
MagShr(x, k) ==
    LET y == SubSeq(x, (k \div LimbBits) + 1, Len(x))
        p == 2^(k % LimbBits)
    IN  MagStrip([i \in 1..Len(y) |->
                     (y[i] \div p) + (Limb(y, i + 1) % p) * (Base \div p)])

\* the number of times 2 divides n, for a limb n > 0
RECURSIVE LimbTwos(_)
LimbTwos(n) == IF n % 2 = 1 THEN 0 ELSE 1 + LimbTwos(n \div 2)

\* the number of times 2 divides x, for x > 0
RECURSIVE MagTwos(_, _)
MagTwos(x, i) ==
    IF x[i] = 0 THEN LimbBits + MagTwos(x, i + 1) ELSE LimbTwos(x[i])

(***************************************************************************)
(* Dyadic rationals: [neg, mag, exp] is (-1)^neg * mag / 2^exp, kept       *)
(* normalised (mag odd, or exp = 0), so equal numbers are equal records.   *)
(***************************************************************************)
DyNorm(neg, mag, exp) ==
    IF mag = <<>> THEN [neg |-> FALSE, mag |-> <<>>, exp |-> 0]
    ELSE LET twos == MagTwos(mag, 1)
             t    == IF twos < exp THEN twos ELSE exp
         IN  [neg |-> neg, mag |-> MagShr(mag, t), exp |-> exp - t]

DyOfInt(n) == DyNorm(n < 0, MagOfNat(IF n < 0 THEN -n ELSE n), 0)

DySign(x) == IF x.mag = <<>> THEN 0 ELSE IF x.neg THEN -1 ELSE 1

DyNeg(x) == DyNorm(~x.neg, x.mag, x.exp)

DyAbs(x) == DyNorm(FALSE, x.mag, x.exp)

DyAdd(x, y) ==
    LET e  == IF x.exp > y.exp THEN x.exp ELSE y.exp
        mx == MagShl(x.mag, e - x.exp)
        my == MagShl(y.mag, e - y.exp)
    IN  IF x.neg = y.neg THEN DyNorm(x.neg, MagAdd(mx, my), e)
        ELSE IF MagCmp(mx, my) >= 0 THEN DyNorm(x.neg, MagSub(mx, my), e)
        ELSE DyNorm(y.neg, MagSub(my, mx), e)

DySub(x, y) == DyAdd(x, DyNeg(y))

DyMul(x, y) == DyNorm(x.neg # y.neg, MagMul(x.mag, y.mag), x.exp + y.exp)

DyHalf(x) == DyNorm(x.neg, x.mag, x.exp + 1)

DyLess(x, y) == DySign(DySub(x, y)) < 0

(***************************************************************************)
(* Fractions num / den of dyadic rationals, den > 0: the tolerance and     *)
(* the relative error.                                                     *)
(***************************************************************************)
Frac(n, d) == [num |-> DyOfInt(n), den |-> DyOfInt(d)]

FracOf(x) == [num |-> x, den |-> DyOfInt(1)]

FracLess(x, y) == DyLess(DyMul(x.num, y.den), DyMul(y.num, x.den))

(***************************************************************************)
(* The program.                                                            *)
(***************************************************************************)
\* Bounds of the calls the model enumerates: integer endpoints in
\* -GridNeg..GridPos and iteration budgets in 1..MaxIter.
GridNeg == 3

GridPos == 12

MaxIter == 4

\* __main__'s call: bisection_method(2.0, 3.0, tolerance=0.0001), with the
\* default max_iterations
MainA == 2

MainB == 3

MainToleranceInverse == 10000

DefaultMaxIterations == 100

MainTolerance == Frac(1, MainToleranceInverse)

\* tolerances of the enumerated calls, in percent: the program's own, and
\* ones large enough for the relative-error test to fire on early passes
Tolerances == {MainTolerance, Frac(1, 2), Frac(60, 1), Frac(150, 1)}

\* Python's None and a bound value, as sequences of length 0 and 1
None == <<>>

Some(v) == <<v>>

\* f with the sign of its constant term slipped
FPlusNine(x) ==
    DyAdd(DySub(DyMul(x, DyMul(x, x)), DyMul(DyOfInt(4), x)), DyOfInt(9))

\* def f(x): return x**3 - 4*x - 9
F(x) == DySub(DySub(DyMul(x, DyMul(x, x)), DyMul(DyOfInt(4), x)), DyOfInt(9))

\* the bracket test with its comparison inverted
BracketRejectedInverted(a0, b0) == DySign(DyMul(F(a0), F(b0))) <= 0

\* if f(a) * f(b) >= 0
BracketRejected(a0, b0) == DySign(DyMul(F(a0), F(b0))) >= 0

\* the midpoint taken a quarter of the way from a
MidQuarter(a0, b0) == DyHalf(DyAdd(a0, DyHalf(DyAdd(a0, b0))))

\* c = (a + b) / 2
Mid(a0, b0) == DyHalf(DyAdd(a0, b0))

\* The division by c on line 48 is evaluated when iteration > 0; it raises
\* ZeroDivisionError when c is 0.
ErrorRaises(it, c0) == it > 0 /\ DySign(c0) = 0

\* the first pass's error started at 0
FirstErrorZero == Frac(0, 1)

\* the value given to the first pass's error
FirstError == Frac(100, 1)

\* error = abs((c - iterations[-1]['c']) / c) * 100  if iteration > 0 else 100
RelError(it, c0, its) ==
    IF it > 0
    THEN [num |-> DyMul(DyAbs(DySub(c0, its[Len(its)].c)), DyOfInt(100)),
          den |-> DyAbs(c0)]
    ELSE FirstError

IterData(it, a0, b0, c0, err) ==
    [iteration |-> it + 1, a |-> a0, b |-> b0, c |-> c0,
     fa |-> F(a0), fb |-> F(b0), fc |-> F(c0), error |-> err]

\* the convergence test without abs()
ConvergedNoAbs(fc, err, tol) ==
    FracLess(FracOf(fc), tol) \/ FracLess(err, tol)

\* if abs(fc) < tolerance or error < tolerance
Converged(fc, err, tol) ==
    FracLess(FracOf(DyAbs(fc)), tol) \/ FracLess(err, tol)

\* the interval update with its branches swapped
UpdateIntervalSwapped(a0, b0, c0, fa, fc) ==
    IF DySign(DyMul(fa, fc)) < 0 THEN <<c0, b0>> ELSE <<a0, c0>>

\* the interval update that always moves b
UpdateIntervalAlwaysB(a0, b0, c0, fa, fc) == <<a0, c0>>

\* if fa * fc < 0: b = c   else: a = c       (the new <<a, b>>)
UpdateInterval(a0, b0, c0, fa, fc) ==
    IF DySign(DyMul(fa, fc)) < 0 THEN <<a0, c0>> ELSE <<c0, b0>>

VARIABLES
    pc,              \* the statement the call is at, or the one that ended it
    a, b,            \* the parameters a and b, reassigned by the loop
    tolerance,
    max_iterations,
    iteration,
    iterations,      \* the list of iter_data
    c,               \* the local c: None while unbound, else Some(c)
    result           \* the pair returned; <<>> while the call runs

vars == <<pc, a, b, tolerance, max_iterations, iteration, iterations, c, result>>

Endpoints == {DyOfInt(n) : n \in (0 - GridNeg)..GridPos}

\* The state when the call is entered: __main__'s call, or one of the
\* enumerated calls.
Init ==
    /\ pc = "call"
    /\ \/ /\ a = DyOfInt(MainA)
          /\ b = DyOfInt(MainB)
          /\ tolerance = MainTolerance
          /\ max_iterations = DefaultMaxIterations
       \/ /\ a \in Endpoints
          /\ b \in Endpoints
          /\ tolerance \in Tolerances
          /\ max_iterations \in 1..MaxIter
    /\ iteration = 0
    /\ iterations = <<>>
    /\ c = None
    /\ result = <<>>

\* lines 27-29: the bracket is rejected
Reject ==
    /\ pc = "call"
    /\ BracketRejected(a, b)
    /\ pc' = "return29"
    /\ result' = <<None, None>>
    /\ UNCHANGED <<a, b, tolerance, max_iterations, iteration, iterations, c>>

\* lines 27-35: the bracket is accepted
Enter ==
    /\ pc = "call"
    /\ ~BracketRejected(a, b)
    /\ pc' = "while"
    /\ iterations' = <<>>
    /\ iteration' = 0
    /\ UNCHANGED <<a, b, tolerance, max_iterations, c, result>>

\* lines 37-48: a pass whose relative error divides by zero
PassRaise ==
    /\ pc = "while"
    /\ iteration < max_iterations
    /\ ErrorRaises(iteration, Mid(a, b))
    /\ c' = Some(Mid(a, b))
    /\ pc' = "raise48"
    /\ UNCHANGED <<a, b, tolerance, max_iterations, iteration, iterations, result>>

\* lines 37-73: a pass that meets the convergence test
PassReturn ==
    /\ pc = "while"
    /\ iteration < max_iterations
    /\ ~ErrorRaises(iteration, Mid(a, b))
    /\ LET c0  == Mid(a, b)
           rec == IterData(iteration, a, b, c0, RelError(iteration, c0, iterations))
       IN  /\ Converged(rec.fc, rec.error, tolerance)
           /\ c' = Some(c0)
           /\ iterations' = Append(iterations, rec)
           /\ result' = <<Some(c0), Some(Append(iterations, rec))>>
    /\ pc' = "return73"
    /\ UNCHANGED <<a, b, tolerance, max_iterations, iteration>>

\* lines 37-81: a pass that does not, and updates the interval
PassUpdate ==
    /\ pc = "while"
    /\ iteration < max_iterations
    /\ ~ErrorRaises(iteration, Mid(a, b))
    /\ LET c0  == Mid(a, b)
           rec == IterData(iteration, a, b, c0, RelError(iteration, c0, iterations))
           ab  == UpdateInterval(a, b, c0, rec.fa, rec.fc)
       IN  /\ ~Converged(rec.fc, rec.error, tolerance)
           /\ c' = Some(c0)
           /\ iterations' = Append(iterations, rec)
           /\ a' = ab[1]
           /\ b' = ab[2]
    /\ iteration' = iteration + 1
    /\ pc' = "while"
    /\ UNCHANGED <<tolerance, max_iterations, result>>

\* lines 37, 83-84: the budget is spent
Exhaust ==
    /\ pc = "while"
    /\ ~(iteration < max_iterations)
    /\ result' = <<c, Some(iterations)>>
    /\ pc' = "return84"
    /\ UNCHANGED <<a, b, tolerance, max_iterations, iteration, iterations, c>>

Next == Reject \/ Enter \/ PassRaise \/ PassReturn \/ PassUpdate \/ Exhaust

Spec == Init /\ [][Next]_vars

(***************************************************************************)
(* The call as a function of its arguments: the same steps, run to the     *)
(* end.  [pc, result] is the statement that ended the call and the value   *)
(* it returned.                                                            *)
(***************************************************************************)
RECURSIVE WhileLoop(_, _, _, _, _, _, _)
WhileLoop(a0, b0, tol, maxit, it, its, c0) ==
    IF ~(it < maxit) THEN [pc |-> "return84", result |-> <<c0, Some(its)>>]
    ELSE LET m == Mid(a0, b0)
         IN  IF ErrorRaises(it, m) THEN [pc |-> "raise48", result |-> <<>>]
             ELSE LET rec == IterData(it, a0, b0, m, RelError(it, m, its))
                      ab  == UpdateInterval(a0, b0, m, rec.fa, rec.fc)
                  IN  IF Converged(rec.fc, rec.error, tol)
                      THEN [pc |-> "return73",
                            result |-> <<Some(m), Some(Append(its, rec))>>]
                      ELSE WhileLoop(ab[1], ab[2], tol, maxit, it + 1,
                                     Append(its, rec), Some(m))

BisectionMethod(a0, b0, tol, maxit) ==
    IF BracketRejected(a0, b0)
    THEN [pc |-> "return29", result |-> <<None, None>>]
    ELSE WhileLoop(a0, b0, tol, maxit, 0, <<>>, None)

\* print(f"... {c:.6f}"): x is shown as micro / 10^6 when that is the
\* nearest multiple of 10^-6
ShownAs(x, micro) ==
    ~DyLess(DyOfInt(1),
            DyMul(DyOfInt(2),
                  DyAbs(DySub(DyMul(x, DyOfInt(10^6)), DyOfInt(micro)))))

(***************************************************************************)
(* Properties.                                                             *)
(***************************************************************************)
\* the arguments a and b of the call (the loop reassigns a and b, after
\* recording them)
CallA == IF iterations = <<>> THEN a ELSE iterations[1].a

CallB == IF iterations = <<>> THEN b ELSE iterations[1].b

Ended == pc \notin {"call", "while"}

ValidBracket == DySign(F(CallA)) * DySign(F(CallB)) < 0

LastRecord == iterations[Len(iterations)]

\* the estimate returned
Root == result[1][1]

AbsBelow(x, tol) == FracLess(FracOf(DyAbs(x)), tol)

\* C1: a call whose f(a) and f(b) have the same strict sign (or one of them
\* is zero) ends at the return of line 29 with (None, None): no pass has
\* run, no record was made and no estimate computed.
C1_InvalidBracketRejected ==
    (pc # "call" /\ DySign(F(CallA)) * DySign(F(CallB)) >= 0)
        => /\ pc = "return29"
           /\ result = <<None, None>>
           /\ iterations = <<>>
           /\ iteration = 0
           /\ c = None

C1_Witness ==
    /\ pc = "return29"
    /\ DySign(F(a)) * DySign(F(b)) > 0
    /\ result = <<None, None>>

\* C2, as claimed: the estimate of a call that returned as converged (line
\* 73, the budget not spent) has |f(estimate)| < tolerance.
C2_ConvergedMeansSmallResidual ==
    pc = "return73" => AbsBelow(F(Root), tolerance)

\* C2, amended: the estimate of a call that returned as converged has
\* |f(estimate)| < tolerance, or the relative error recorded for its pass is
\* below the tolerance.
C2_ConvergedMeansResidualOrError ==
    pc = "return73"
        => \/ AbsBelow(F(Root), tolerance)
           \/ FracLess(LastRecord.error, tolerance)

C2_Witness ==
    /\ pc = "return73"
    /\ Len(iterations) >= 2
    /\ ~AbsBelow(F(Root), tolerance)
    /\ FracLess(LastRecord.error, tolerance)

\* C3: the returned value alone tells a converged call from one that spent
\* its budget: no call that spent its budget returns the value a converged
\* call returned.
C3_ResultTellsOutcome ==
    pc = "return73"
        => \A a0 \in Endpoints, b0 \in Endpoints :
             \A tol \in Tolerances, maxit \in 1..MaxIter :
               LET r == BisectionMethod(a0, b0, tol, maxit)
               IN  r.pc = "return84" => r.result # result

\* C4: a pass after the first whose midpoint is exactly zero does not end
\* the call with a fault: the call goes on or returns.
C4_ZeroMidpointNoFault ==
    (c # None /\ iteration > 0 /\ DySign(c[1]) = 0)
        => pc \in {"while", "return73", "return84"}

\* C5: in every record f(a) and f(b) have opposite signs or one of them is
\* zero, so the bracket holds the root on every pass.
C5_RecordsBracketRoot ==
    \A k \in 1..Len(iterations) :
        /\ iterations[k].fa = F(iterations[k].a)
        /\ iterations[k].fb = F(iterations[k].b)
        /\ DySign(iterations[k].fa) * DySign(iterations[k].fb) <= 0

C5_Witness ==
    /\ Len(iterations) >= 3
    /\ iterations[2].a # iterations[1].a
    /\ iterations[3].b # iterations[2].b

C7_ReturnsWithinBudget ==
    (Ended /\ ValidBracket)
        => /\ pc \in {"return73", "return84"}
           /\ result = <<c, Some(iterations)>>
           /\ Len(iterations) \in 1..max_iterations
           /\ \A k \in 1..Len(iterations) : iterations[k].iteration = k
           /\ c = Some(LastRecord.c)
           /\ (pc = "return84" => Len(iterations) = max_iterations)

\* the call of __main__
MainCall ==
    /\ CallA = DyOfInt(MainA)
    /\ CallB = DyOfInt(MainB)
    /\ tolerance = MainTolerance
    /\ max_iterations = DefaultMaxIterations

\* C8, as claimed: the call of __main__ converges in fewer than 20 passes
\* to a root shown as 2.706421, with |f(root)| < 0.0001.
C8_MainCallRoot2706421 ==
    (MainCall /\ Ended)
        => /\ pc = "return73"
           /\ Len(iterations) < 20
           /\ ShownAs(Root, 2706421)
           /\ AbsBelow(F(Root), MainTolerance)

\* C8, amended: the call of __main__ converges in fewer than 20 passes to a
\* root shown as 2.706528, with |f(root)| < 0.0001.
C8_MainCallRoot2706528 ==
    (MainCall /\ Ended)
        => /\ pc = "return73"
           /\ Len(iterations) < 20
           /\ ShownAs(Root, 2706528)
           /\ AbsBelow(F(Root), MainTolerance)

C8_Witness == MainCall /\ pc = "return73" /\ Len(iterations) > 10

\* C9, as claimed: the first record's error is 100, and a call that returns
\* as converged after its first pass has |f(mid)| < tolerance.
C9_FirstPassNotOnError ==
    /\ iterations # <<>> => iterations[1].error = Frac(100, 1)
    /\ (pc = "return73" /\ Len(iterations) = 1)
           => AbsBelow(iterations[1].fc, tolerance)

\* C9, amended: the first record's error is 100, and for a tolerance of at
\* most 100 a call that returns as converged after its first pass has
\* |f(mid)| < tolerance.
C9_FirstPassNotOnErrorUpTo100 ==
    /\ iterations # <<>> => iterations[1].error = Frac(100, 1)
    /\ (pc = "return73" /\ Len(iterations) = 1
            /\ ~FracLess(Frac(100, 1), tolerance))
           => AbsBelow(iterations[1].fc, tolerance)

C9_Witness ==
    /\ pc = "return73"
    /\ Len(iterations) = 1
    /\ ~FracLess(Frac(100, 1), tolerance)
    /\ iterations[1].error = Frac(100, 1)

\* C10: after a pass that did not converge, if f(low) * f(mid) < 0 then
\* high is the pass's mid and low is unchanged; otherwise (a zero product
\* included) low is the pass's mid and high is unchanged.
C10_UpdateRule ==
    (pc = "while" /\ iterations # <<>>)
        => IF DySign(LastRecord.fa) * DySign(LastRecord.fc) < 0
           THEN a = LastRecord.a /\ b = LastRecord.c
           ELSE a = LastRecord.c /\ b = LastRecord.b

C10_Witness ==
    /\ pc = "while"
    /\ Len(iterations) >= 2
    /\ \E j, k \in 1..Len(iterations) :
         /\ DySign(iterations[j].fa) * DySign(iterations[j].fc) < 0
         /\ DySign(iterations[k].fa) * DySign(iterations[k].fc) > 0

====
